---------------------------- MODULE Spec2Model ----------------------------
(***************************************************************************)
(* A model of envmap/environmentmap.py: the EnvironmentMap object (data,  *)
(* format_, backgroundColor), its operations convertTo, interpolate,      *)
(* setBackgroundColor, worldCoordinates, imageCoordinates, and the six    *)
(* projection transforms.                                                 *)
(*                                                                         *)
(* Numbers.  Image coordinates (u, v), world coordinates (x, y, z) and    *)
(* interpolation weights are fixed-point integers: the real number r is   *)
(* the integer r * Scale.  Angles are whole degrees (np.pi is 180), so    *)
(* the trigonometric functions are computed to the nearest degree and the *)
(* round trip of a transform pair is compared within Tol, which is wider  *)
(* than that resolution and far narrower than any projection error.       *)
(* Arrays are functions over 0-based index ranges, as in numpy.           *)
(*                                                                         *)
(* A value that is used more than once is passed to an operator as a      *)
(* parameter instead of being named in a LET, so that its expression      *)
(* occurs once in the module; the steps of one method of the source are   *)
(* then a chain of operators, each named after the step it takes.         *)
(***************************************************************************)
EXTENDS Integers, Sequences, FiniteSets, TLC

VARIABLES data, format_, backgroundColor, pre, last, calls, probe

vars == <<data, format_, backgroundColor, pre, last, calls, probe>>
mapVars == <<data, format_, backgroundColor, pre, last, calls>>

---------------------------------------------------------------------------
(* Bounds of the model *)

\* largest number of rows and of columns of a map
MaxDim == 4
\* largest number of channels of a map
MaxChan == 4
\* number of calls made on one map
MaxCalls == 2
\* the transforms are sampled at (a / SampleN, b / SampleN), a, b in 0..SampleN
SampleN == 8

---------------------------------------------------------------------------
(* Fixed-point arithmetic *)

\* one unit of the reals; divisible by 2n for every axis length n and by
\* every SampleN the model uses, so that pixel centers and samples are exact
Scale == 2 * 5040
Half == Scale \div 2
\* tolerance of a round trip, 1/100 of the unit square's side
Tol == Scale \div 100
\* the value of a sample interpolated outside the source grid (fill_value
\* of RegularGridInterpolator, numpy.nan)
NaN == 0 - 1000000

Abs(a) == IF a < 0 THEN 0 - a ELSE a
\* a / b rounded to the nearest integer, b > 0
RDiv(a, b) == (2 * a + b) \div (2 * b)

RECURSIVE SqrtSearch(_, _, _)
SqrtSearch(n, lo, hi) ==
    IF lo >= hi THEN lo
    ELSE LET mid == (lo + hi + 1) \div 2
         IN  IF mid * mid <= n THEN SqrtSearch(n, mid, hi)
                               ELSE SqrtSearch(n, lo, mid - 1)
\* np.sqrt of a non-negative integer, rounded to the nearest integer
ISqrt(n) ==
    LET f == SqrtSearch(n, 0, 2 * Scale)
    IN  IF n - f * f > f THEN f + 1 ELSE f
\* np.sqrt(a**2 + b**2) of two fixed-point numbers
Hypot(a, b) == ISqrt(a * a + b * b)

\* np.pi, in degrees
Pi == 180

\* Scale * sin(k degrees), k = 0..90
SinTab ==
    << 0, 176, 352, 528, 703, 879, 1054, 1228, 1403, 1577,
       1750, 1923, 2096, 2268, 2439, 2609, 2778, 2947, 3115, 3282,
       3448, 3612, 3776, 3939, 4100, 4260, 4419, 4576, 4732, 4887,
       5040, 5192, 5342, 5490, 5637, 5782, 5925, 6066, 6206, 6344,
       6479, 6613, 6745, 6875, 7002, 7128, 7251, 7372, 7491, 7607,
       7722, 7834, 7943, 8050, 8155, 8257, 8357, 8454, 8548, 8640,
       8730, 8816, 8900, 8981, 9060, 9136, 9209, 9279, 9346, 9410,
       9472, 9531, 9587, 9640, 9690, 9737, 9781, 9822, 9860, 9895,
       9927, 9956, 9982, 10005, 10025, 10042, 10055, 10066, 10074, 10078,
       10080 >>

\* the angle in 0..90 with the same sine, up to sign, as m in 0..359
Reduce(m) ==
    IF m <= 90 THEN m
    ELSE IF m <= 180 THEN 180 - m
    ELSE IF m <= 270 THEN m - 180
    ELSE 360 - m

\* np.sin of an angle in degrees
Sin(d) ==
    (IF d % 360 <= 180 THEN 1 ELSE 0 - 1) * SinTab[Reduce(d % 360) + 1]
\* np.cos of an angle in degrees
Cos(d) == Sin(d + 90)

\* the largest k in lo..hi with Cos(k - 1) + Cos(k) > 2 * c, lo if none:
\* the cosine falls from 0 to 180 degrees
RECURSIVE ArcCosSearch(_, _, _)
ArcCosSearch(c, lo, hi) ==
    IF lo >= hi THEN lo
    ELSE IF Cos(((lo + hi + 1) \div 2) - 1) + Cos((lo + hi + 1) \div 2) > 2 * c
         THEN ArcCosSearch(c, (lo + hi + 1) \div 2, hi)
         ELSE ArcCosSearch(c, lo, ((lo + hi + 1) \div 2) - 1)

\* np.arccos, in degrees 0..180: the degree whose cosine is nearest to c
ArcCos(c) == ArcCosSearch(c, 0, Pi)

\* the largest k in lo..hi whose half-way direction k - 1/2, that of the
\* sum of the unit vectors at k - 1 and k, lies below (ax, ay); lo if none
RECURSIVE ArcTanSearch(_, _, _, _)
ArcTanSearch(ay, ax, lo, hi) ==
    IF lo >= hi THEN lo
    ELSE IF (Sin(((lo + hi + 1) \div 2) - 1) + Sin((lo + hi + 1) \div 2)) * ax
             < (Cos(((lo + hi + 1) \div 2) - 1) + Cos((lo + hi + 1) \div 2)) * ay
         THEN ArcTanSearch(ay, ax, (lo + hi + 1) \div 2, hi)
         ELSE ArcTanSearch(ay, ax, lo, ((lo + hi + 1) \div 2) - 1)

\* the quadrant of (x, y) applied to the angle t in 0..90
Quadrant(y, x, t) ==
    IF x >= 0 THEN (IF y >= 0 THEN t ELSE 0 - t)
    ELSE (IF y >= 0 THEN Pi - t ELSE t - Pi)

\* np.arctan2(y, x), in degrees -180..180, to the nearest degree
ArcTan2(y, x) == Quadrant(y, x, ArcTanSearch(Abs(y), Abs(x), 0, 90))

\* the product of two fixed-point numbers
Mul(a, b) == RDiv(a * b, Scale)

---------------------------------------------------------------------------
(* The projection registry *)

SUPPORTED_FORMATS == {"angular", "skyangular", "latlong"}

\* the format identifiers callers pass: the registry's, one of them in
\* another case, and one outside the registry
FormatArgs == SUPPORTED_FORMATS \cup {"LatLong", "cubemap"}

\* str.lower on the identifiers of FormatArgs
Lower(s) == IF s = "LatLong" THEN "latlong" ELSE s

---------------------------------------------------------------------------
(* The projection transforms, on one point.  A world point is a record    *)
(* [x, y, z, valid], an image point a record [u, v].                       *)

\* the smallest increment of the fixed-point numbers stands for 2**-52
eps == 1

\* world2latlong without its last step u = u/2
world2latlongNoHalving(x, y, z) ==
    [u |-> Scale + RDiv(Scale * ArcTan2(x, 0 - z), Pi),
     v |-> RDiv(Scale * ArcCos(y), Pi)]

\* u = 1 + (1/pi) * arctan2(x, -z); v = (1/pi) * arccos(y); u = u/2
world2latlong(x, y, z) ==
    [u |-> RDiv(Scale + RDiv(Scale * ArcTan2(x, 0 - z), Pi), 2),
     v |-> RDiv(Scale * ArcCos(y), Pi)]

\* rAngular * t for t = x, y, with rAngular = arccos(-z) / denum and
\* denum = 2 pi s + eps: computed as (arccos(-z) / (2 pi)) * (t / (s + eps)),
\* the same quotient with the integer range kept.  With s = 0 the guard eps
\* keeps the division defined, as in the source
RAngularTimes(t, a, s) == RDiv(a * RDiv(Scale * t, s + eps), 2 * Pi)

AngularImage(x, y, a, s) ==
    [u |-> Half + RAngularTimes(x, a, s), v |-> Half - RAngularTimes(y, a, s)]

world2angular(x, y, z) == AngularImage(x, y, ArcCos(0 - z), Hypot(x, y))

\* x = sin(phi) sin(theta), y = cos(phi), z = -sin(phi) cos(theta)
LatLongWorld(thetaLatLong, phiLatLong) ==
    [x |-> Mul(Sin(phiLatLong), Sin(thetaLatLong)),
     y |-> Cos(phiLatLong),
     z |-> 0 - Mul(Sin(phiLatLong), Cos(thetaLatLong)),
     valid |-> TRUE]

\* u = u*2; thetaLatLong = pi*(u-1); phiLatLong = pi*v
latlong2world(u, v) ==
    LatLongWorld(RDiv(Pi * (u * 2 - Scale), Scale), RDiv(Pi * v, Scale))

\* the disk without its rim: r < .25
InDiskOpen(u, v) ==
    4 * ((u - Half) * (u - Half) + (v - Half) * (v - Half)) < Scale * Scale

\* r <= .25 of the source, r = (u - 0.5)**2 + (v - 0.5)**2, without rounding
InDisk(u, v) ==
    4 * ((u - Half) * (u - Half) + (v - Half) * (v - Half)) <= Scale * Scale

\* np.arctan2(-2*v+1, 2*u-1)
Azimuth(u, v) == ArcTan2(Scale - 2 * v, 2 * u - Scale)
\* np.sqrt((2*u-1)**2 + (2*v-1)**2)
Radius(u, v) == Hypot(2 * u - Scale, 2 * v - Scale)

\* x = sin(phi) cos(theta), y = sin(phi) sin(theta), z = -cos(phi)
AngularWorld(thetaAngular, phiAngular, valid) ==
    [x |-> Mul(Sin(phiAngular), Cos(thetaAngular)),
     y |-> Mul(Sin(phiAngular), Sin(thetaAngular)),
     z |-> 0 - Cos(phiAngular),
     valid |-> valid]

angular2world(u, v) ==
    AngularWorld(Azimuth(u, v), RDiv(Pi * Radius(u, v), Scale), InDisk(u, v))

\* x = sin(phi) cos(theta), z = sin(phi) sin(theta), y = cos(phi)
SkyAngularWorld(thetaAngular, phiAngular, valid) ==
    [x |-> Mul(Sin(phiAngular), Cos(thetaAngular)),
     y |-> Cos(phiAngular),
     z |-> Mul(Sin(phiAngular), Sin(thetaAngular)),
     valid |-> valid]

skyangular2world(u, v) ==
    SkyAngularWorld(Azimuth(u, v), RDiv(Pi * Radius(u, v), 2 * Scale),
                    InDisk(u, v))

\* r = phiAngular/(pi/2); u = r*sin(theta)/2+1/2; v = 1/2-r*cos(theta)/2
SkyAngularImage(thetaAngular, phiAngular) ==
    [u |-> RDiv(phiAngular * Sin(thetaAngular), Pi) + Half,
     v |-> Half - RDiv(phiAngular * Cos(thetaAngular), Pi)]

world2skyangular(x, y, z) ==
    SkyAngularImage(ArcTan2(x, z), ArcTan2(Hypot(x, z), y))

\* the dispatch tables of image2world and world2image: dict.get gives None
\* for a format that is no key, and calling None raises TypeError
Dispatches(fmt) == fmt \in {"angular", "skyangular", "latlong"}

image2world(fmt, u, v) ==
    CASE fmt = "angular" -> angular2world(u, v)
      [] fmt = "skyangular" -> skyangular2world(u, v)
      [] fmt = "latlong" -> latlong2world(u, v)

world2image(fmt, x, y, z) ==
    CASE fmt = "angular" -> world2angular(x, y, z)
      [] fmt = "skyangular" -> world2skyangular(x, y, z)
      [] fmt = "latlong" -> world2latlong(x, y, z)

---------------------------------------------------------------------------
(* Arrays *)

Size(a) == Cardinality(DOMAIN a)
Rows(a) == Cardinality(DOMAIN a)
Cols(a) == Cardinality(DOMAIN a[0])
Chans(a) == Cardinality(DOMAIN a[0][0])
\* a.shape[:2]
Shape2(a) == <<Rows(a), Cols(a)>>

\* the array a with every element computed
Array(a) == IF a = a THEN a ELSE a

\* np.zeros((rows, cols, chans))
Zeros(rows, cols, chans) ==
    [i \in 0..rows - 1 |-> [j \in 0..cols - 1 |-> [c \in 0..chans - 1 |-> 0]]]

\* np.linspace(0, 1, num)
linspace(num) == [k \in 0..num - 1 |-> RDiv(k * Scale, num - 1)]
\* a[1::2]
OddElements(a) == [k \in 0..(Size(a) \div 2) - 1 |-> a[2 * k + 1]]
\* np.meshgrid(xs, ys, indexing='ij'): one row per element of xs
meshgridIJ(xs, ys) ==
    [U |-> [i \in DOMAIN xs |-> [j \in DOMAIN ys |-> xs[i]]],
     V |-> [i \in DOMAIN xs |-> [j \in DOMAIN ys |-> ys[j]]]]

\* np.meshgrid(xs, ys): both results have one row per element of ys
meshgrid(xs, ys) ==
    [U |-> [i \in DOMAIN ys |-> [j \in DOMAIN xs |-> xs[j]]],
     V |-> [i \in DOMAIN ys |-> [j \in DOMAIN xs |-> ys[i]]]]
\* a.flatten() of a two-dimensional array, row by row
Flatten(a) == [n \in 0..Rows(a) * Cols(a) - 1 |-> a[n \div Cols(a)][n % Cols(a)]]

---------------------------------------------------------------------------
(* The EnvironmentMap object: a record [data, format_, backgroundColor].   *)
(* A method is an operator from the object (and the arguments) to the      *)
(* object it leaves behind, with the exception it raised, if any.          *)

EnvironmentMap(im, fmt) ==
    [data |-> im, format_ |-> Lower(fmt), backgroundColor |-> [c \in 0..2 |-> 0]]

\* the object a method leaves behind when it raises exc, or returns ("none")
Outcome(self, exc) ==
    [data |-> self.data, format_ |-> self.format_,
     backgroundColor |-> self.backgroundColor, raised |-> exc,
     sampled |-> <<>>, valid |-> <<>>]

imageCoordinates(self) ==
    Array(meshgrid(OddElements(linspace(Cols(self.data) * 2 + 1)),
                   OddElements(linspace(Rows(self.data) * 2 + 1))))

\* the four arrays x, y, z, valid of an array w of world points
Components(w) ==
    [x |-> [i \in DOMAIN w |-> [j \in DOMAIN w[i] |-> w[i][j].x]],
     y |-> [i \in DOMAIN w |-> [j \in DOMAIN w[i] |-> w[i][j].y]],
     z |-> [i \in DOMAIN w |-> [j \in DOMAIN w[i] |-> w[i][j].z]],
     valid |-> [i \in DOMAIN w |-> [j \in DOMAIN w[i] |-> w[i][j].valid]],
     raised |-> "none"]

\* self.image2world(u, v) on the arrays g.U, g.V
Image2WorldArrays(fmt, g) ==
    Components(Array([i \in DOMAIN g.U |-> [j \in DOMAIN g.U[i] |->
                        image2world(fmt, g.U[i][j], g.V[i][j])]]))

worldCoordinates(self) ==
    IF ~Dispatches(self.format_) THEN [raised |-> "TypeError"]
    ELSE Image2WorldArrays(self.format_, imageCoordinates(self))

---------------------------------------------------------------------------
(* scipy.interpolate.RegularGridInterpolator(points, values,               *)
(* bounds_error=False), method linear, evaluated at one point (x0, x1)     *)

\* searchsorted(grid, x) - 1, clipped to 0 .. len(grid) - 2
FindIndex(grid, x) ==
    CHOOSE i \in 0..Size(grid) - 2 :
        /\ (i > 0 => grid[i] < x)
        /\ (i < Size(grid) - 2 => x <= grid[i + 1])
\* (x - grid[i]) / (grid[i + 1] - grid[i])
NormDistance(grid, i, x) == RDiv(Scale * (x - grid[i]), grid[i + 1] - grid[i])
OutOfBounds(grid, x) == x < grid[0] \/ x > grid[Size(grid) - 1]

\* the weighted sum over the four corners of the cell (i0, i1) of the
\* channel c of values; a NaN corner makes the sum NaN whatever its weight
Bilinear(values, c, i0, i1, y0, y1) ==
    IF NaN \in {values[i0][i1][c], values[i0][i1 + 1][c],
                values[i0 + 1][i1][c], values[i0 + 1][i1 + 1][c]}
    THEN NaN
    ELSE RDiv(values[i0][i1][c] * Mul(Scale - y0, Scale - y1)
              + values[i0][i1 + 1][c] * Mul(Scale - y0, y1)
              + values[i0 + 1][i1][c] * Mul(y0, Scale - y1)
              + values[i0 + 1][i1 + 1][c] * Mul(y0, y1), Scale)

InCell(points0, points1, values, c, i0, i1, x0, x1) ==
    Bilinear(values, c, i0, i1,
             NormDistance(points0, i0, x0), NormDistance(points1, i1, x1))

\* intmesh(target) at one target point, for the channel c of values
Interp(points0, points1, values, c, x0, x1) ==
    IF OutOfBounds(points0, x0) \/ OutOfBounds(points1, x1) THEN NaN
    ELSE InCell(points0, points1, values, c,
                FindIndex(points0, x0), FindIndex(points1, x1), x0, x1)

---------------------------------------------------------------------------
(* setBackgroundColor *)

\* a[mask] = value with mask = valid, the inversion left out
MaskedAssignValid(px, isValid, c, value) ==
    IF isValid THEN [px EXCEPT ![c] = value] ELSE px

\* a[mask] = value on one pixel px of channel c, mask = np.invert(valid)
MaskedAssign(px, isValid, c, value) ==
    IF isValid THEN px ELSE [px EXCEPT ![c] = value]

\* the loop over the channels c, c + 1, ...: backgroundColor[c] raises
\* IndexError when the color has no element c
RECURSIVE FillChannels(_, _, _, _)
FillChannels(d, color, valid, c) ==
    IF c >= Chans(d) THEN [data |-> d, raised |-> "none"]
    ELSE IF c \notin DOMAIN color THEN [data |-> d, raised |-> "IndexError"]
    ELSE FillChannels(
             Array([i \in DOMAIN d |-> [j \in DOMAIN d[i] |->
                      MaskedAssign(d[i][j], valid[i][j], c, color[c])]]),
             color, valid, c + 1)

\* the object after the loop f, the color stored before the loop
Filled(self, color, f) ==
    [data |-> f.data, format_ |-> self.format_, backgroundColor |-> color,
     raised |-> f.raised, sampled |-> <<>>, valid |-> <<>>]

\* valid is a record [dtype, arr]
setBackgroundColor(self, color, valid) ==
    IF valid.dtype # "bool" THEN Outcome(self, "AssertionError")
    ELSE IF Shape2(valid.arr) # Shape2(self.data)
         THEN Outcome(self, "AssertionError")
    ELSE Filled(self, color, FillChannels(self.data, color, valid.arr, 0))

---------------------------------------------------------------------------
(* interpolate *)

\* self.data = data without the background fill that follows it
KeepSamples(self, buf, valid) ==
    [data |-> buf, format_ |-> self.format_,
     backgroundColor |-> self.backgroundColor, raised |-> "none",
     sampled |-> buf, valid |-> valid.arr]

\* the result r of the fill, with the samples buf it was given and the mask
History(r, buf, valid) == [r EXCEPT !.sampled = buf, !.valid = valid.arr]

\* self.data = data; self.setBackgroundColor(self.backgroundColor, valid)
FillBackground(self, buf, valid) ==
    History(setBackgroundColor([self EXCEPT !.data = buf],
                               self.backgroundColor, valid), buf, valid)

\* the loop over the channels: the interpolator is built on the axes
\* (cols, rows) and the values self.data[:,:,c], and raises ValueError
\* unless each axis has as many points as the values have entries in that
\* dimension; the samples are reshaped to (cols.size, rows.size)
Resample(self, cols, rows, tu, tv, valid) ==
    IF Chans(self.data) > 0
       /\ (Size(cols) # Rows(self.data) \/ Size(rows) # Cols(self.data))
    THEN Outcome(self, "ValueError")
    ELSE IF Chans(self.data) > 0 /\ Size(tu) # Size(cols) * Size(rows)
    THEN Outcome(self, "ValueError")
    ELSE FillBackground(self,
             Array([a \in 0..Size(cols) - 1 |-> [b \in 0..Size(rows) - 1 |->
                      [c \in 0..Chans(self.data) - 1 |->
                          Interp(cols, rows, self.data, c,
                                 tu[a * Size(rows) + b],
                                 tv[a * Size(rows) + b])]]]),
             valid)

\* cols = cols[0, :]; rows = rows[:, 0] of the grid g
OnGrid(self, g, tu, tv, valid) ==
    Resample(self, g.U[0], [i \in DOMAIN g.V |-> g.V[i][0]], tu, tv, valid)

interpolate(self, u, v, valid) ==
    OnGrid(self, imageCoordinates(self), Flatten(u), Flatten(v), valid)

---------------------------------------------------------------------------
(* convertTo *)

\* self.format_ = targetFormat; self.interpolate(u, v, valid), with uv the
\* array of the image points (u, v)
Reformat(self, targetFormat, uv, valid) ==
    interpolate([self EXCEPT !.format_ = targetFormat],
                [i \in DOMAIN uv |-> [j \in DOMAIN uv[i] |-> uv[i][j].u]],
                [i \in DOMAIN uv |-> [j \in DOMAIN uv[i] |-> uv[i][j].v]],
                [dtype |-> "bool", arr |-> valid])

\* u, v = self.world2image(dx, dy, dz), d the world coordinates of eTmp
Project(self, targetFormat, d) ==
    IF ~Dispatches(self.format_) THEN Outcome(self, "TypeError")
    ELSE Reformat(self, targetFormat,
             Array([i \in DOMAIN d.x |-> [j \in DOMAIN d.x[i] |->
                      world2image(self.format_,
                                  d.x[i][j], d.y[i][j], d.z[i][j])]]),
             d.valid)

convertTo(self, targetFormat) ==
    IF Lower(targetFormat) \notin SUPPORTED_FORMATS
    THEN Outcome(self, "AssertionError")
    ELSE Project(self, targetFormat,
             worldCoordinates(
                 EnvironmentMap(Zeros(Rows(self.data), Cols(self.data),
                                      Chans(self.data)), targetFormat)))

---------------------------------------------------------------------------
(* The calls made on one map *)

\* the shapes (rows, columns) of the maps: the square ones and two that
\* are not
Shapes ==
    {s \in (2..MaxDim) \X (2..MaxDim) : s[1] = s[2] \/ {s[1], s[2]} = {2, 3}}

\* an image whose pixels and channels all differ
Image(nrows, ncols, chans) ==
    [i \in 0..nrows - 1 |-> [j \in 0..ncols - 1 |-> [c \in 0..chans - 1 |->
        100 * (i + 1) + 10 * (j + 1) + c]]]

\* a color of n elements
Color(n) == [c \in 0..n - 1 |-> 7 + c]
\* a mask that is false on every other pixel
Checker(nrows, ncols) ==
    [i \in 0..nrows - 1 |-> [j \in 0..ncols - 1 |-> (i + j) % 2 = 0]]
AllTrue(nrows, ncols) ==
    [i \in 0..nrows - 1 |-> [j \in 0..ncols - 1 |-> TRUE]]

\* the arguments of setBackgroundColor on a map of the given shape: a
\* boolean mask of the map's shape with a color of one element per channel,
\* of one less and of one more; a mask that is not boolean; a mask of
\* another shape
BackgroundArgs(nrows, ncols, chans) ==
    {[color |-> Color(n),
      valid |-> [dtype |-> "bool", arr |-> Checker(nrows, ncols)]] :
        n \in {chans - 1, chans, chans + 1}}
    \cup {[color |-> Color(chans),
           valid |-> [dtype |-> "float64", arr |-> Checker(nrows, ncols)]],
          [color |-> Color(chans),
           valid |-> [dtype |-> "bool", arr |-> Checker(nrows + 1, ncols)]]}

\* the object the state holds
Self == [data |-> data, format_ |-> format_, backgroundColor |-> backgroundColor]
Idle == [stage |-> "idle"]

\* EnvironmentMap(im, format_): the assert of the constructor admits the
\* formats of the registry in any case
Init ==
    /\ \E s \in Shapes, k \in 1..MaxChan, f \in FormatArgs :
          /\ Lower(f) \in SUPPORTED_FORMATS
          /\ data = EnvironmentMap(Image(s[1], s[2], k), f).data
          /\ format_ = EnvironmentMap(Image(s[1], s[2], k), f).format_
          /\ backgroundColor
                = EnvironmentMap(Image(s[1], s[2], k), f).backgroundColor
    /\ pre = Self
    /\ last = [op |-> "__init__", raised |-> "none", args |-> <<>>,
               sampled |-> <<>>, valid |-> <<>>]
    /\ calls = 0
    /\ probe = Idle

\* the call op(args) leaves the object r: pre is the object before the
\* call, last the call, its exception, and what interpolate sampled
Returns(r, op, args) ==
    /\ calls < MaxCalls
    /\ data' = r.data
    /\ format_' = r.format_
    /\ backgroundColor' = r.backgroundColor
    /\ pre' = Self
    /\ last' = [op |-> op, raised |-> r.raised, args |-> args,
                sampled |-> r.sampled, valid |-> r.valid]
    /\ calls' = calls + 1
    /\ UNCHANGED probe

ConvertTo(targetFormat) ==
    Returns(convertTo(Self, targetFormat), "convertTo",
            [targetFormat |-> targetFormat])

SetBackgroundColor(a) ==
    Returns(setBackgroundColor(Self, a.color, a.valid), "setBackgroundColor", a)

\* interpolate at the map's own pixel centers, every pixel valid
InterpolateOwnGrid ==
    Returns(interpolate(Self, imageCoordinates(Self).U, imageCoordinates(Self).V,
                        [dtype |-> "bool",
                         arr |-> AllTrue(Rows(data), Cols(data))]),
            "interpolate", <<>>)

\* worldCoordinates reads the map and changes nothing
WorldCoordinates ==
    /\ calls < MaxCalls
    /\ pre' = Self
    /\ last' = [op |-> "worldCoordinates",
                raised |-> worldCoordinates(Self).raised, args |-> <<>>,
                sampled |-> <<>>, valid |-> <<>>]
    /\ calls' = calls + 1
    /\ UNCHANGED <<data, format_, backgroundColor, probe>>

Next ==
    \/ \E targetFormat \in FormatArgs : ConvertTo(targetFormat)
    \/ \E a \in BackgroundArgs(Rows(data), Cols(data), Chans(data)) :
          SetBackgroundColor(a)
    \/ InterpolateOwnGrid
    \/ WorldCoordinates

Spec == Init /\ [][Next]_vars

---------------------------------------------------------------------------
(* The transforms and the coordinate grids as functions: probe holds the   *)
(* input, then what the functions return for it.                           *)

\* the image points (a / SampleN, b / SampleN) of the unit square
Samples ==
    {[u |-> RDiv(a * Scale, SampleN), v |-> RDiv(b * Scale, SampleN)] :
        a \in 0..SampleN, b \in 0..SampleN}

\* On the seam u = 0, u = 1 and at the pole v = 1 of latlong, what
\* world2latlong returns in the source depends on the rounding residue of
\* sin(pi) and on the sign of zero, which the fixed-point numbers do not
\* have: world2image is not applied to the world points of these samples
Representable(fmt, u, v) ==
    fmt = "latlong" => (0 < u /\ u < Scale /\ v < Scale)

InitFn ==
    /\ data = Zeros(1, 1, 1)
    /\ format_ = "latlong"
    /\ backgroundColor = [c \in 0..2 |-> 0]
    /\ pre = Self
    /\ last = [op |-> "__init__", raised |-> "none", args |-> <<>>,
               sampled |-> <<>>, valid |-> <<>>]
    /\ calls = 0
    /\ \E fmt \in SUPPORTED_FORMATS :
          \/ \E p \in Samples :
                probe = [stage |-> "point", fmt |-> fmt, u |-> p.u, v |-> p.v]
          \/ \E nrows \in 1..MaxDim, ncols \in 1..MaxDim :
                probe = [stage |-> "map", fmt |-> fmt,
                         nrows |-> nrows, ncols |-> ncols]

ProbeImage2World ==
    /\ probe.stage = "point"
    /\ probe' = [stage |-> "world", fmt |-> probe.fmt,
                 u |-> probe.u, v |-> probe.v,
                 w |-> image2world(probe.fmt, probe.u, probe.v)]
    /\ UNCHANGED mapVars

ProbeWorld2Image ==
    /\ probe.stage = "world"
    /\ Representable(probe.fmt, probe.u, probe.v)
    /\ probe' = [stage |-> "image", fmt |-> probe.fmt,
                 u |-> probe.u, v |-> probe.v, w |-> probe.w,
                 uv |-> world2image(probe.fmt, probe.w.x, probe.w.y, probe.w.z)]
    /\ UNCHANGED mapVars

ProbeImageCoordinates ==
    /\ probe.stage = "map"
    /\ probe' = [stage |-> "grid", fmt |-> probe.fmt,
                 nrows |-> probe.nrows, ncols |-> probe.ncols,
                 g |-> imageCoordinates(
                          EnvironmentMap(Zeros(probe.nrows, probe.ncols, 1),
                                         probe.fmt))]
    /\ UNCHANGED mapVars

ProbeWorldCoordinates ==
    /\ probe.stage = "map"
    /\ probe' = [stage |-> "worldgrid", fmt |-> probe.fmt,
                 nrows |-> probe.nrows, ncols |-> probe.ncols,
                 d |-> worldCoordinates(
                          EnvironmentMap(Zeros(probe.nrows, probe.ncols, 1),
                                         probe.fmt))]
    /\ UNCHANGED mapVars

NextFn ==
    \/ ProbeImage2World
    \/ ProbeWorld2Image
    \/ ProbeImageCoordinates
    \/ ProbeWorldCoordinates

SpecFn == InitFn /\ [][NextFn]_vars

---------------------------------------------------------------------------
(* Properties of the calls on a map (Spec) *)

\* the center of pixel (i, j) of a map of nrows x ncols pixels lies outside
\* the inscribed disk: (u - 0.5)^2 + (v - 0.5)^2 > 0.25 at
\* u = (2j+1)/(2 ncols), v = (2i+1)/(2 nrows)
OutsideDisk(i, j, nrows, ncols) ==
    ncols * ncols * (2 * i + 1 - nrows) * (2 * i + 1 - nrows)
    + nrows * nrows * (2 * j + 1 - ncols) * (2 * j + 1 - ncols)
    > nrows * nrows * ncols * ncols

Failed(op) == last.op = op /\ last.raised # "none"
Returned(op) == last.op = op /\ last.raised = "none"

\* C1: when a call to convertTo or setBackgroundColor raises, data, format_
\* and backgroundColor equal their values immediately before the call.
C1_NoPartialMutation ==
    (Failed("convertTo") \/ Failed("setBackgroundColor")) => Self = pre

\* C2: after construction, and after a successful convertTo on a map whose
\* format_ was in the registry, format_ is one of 'angular', 'skyangular',
\* 'latlong'; and a map whose format_ is in the registry never fails a
\* worldCoordinates or convertTo call for lack of a transform.
C2_FormatInRegistry ==
    /\ (calls = 0 => format_ \in SUPPORTED_FORMATS)
    /\ (Returned("convertTo") /\ pre.format_ \in SUPPORTED_FORMATS
           => format_ \in SUPPORTED_FORMATS)
    /\ (pre.format_ \in SUPPORTED_FORMATS => last.raised # "TypeError")

C4_KeepsShape ==
    (/\ last.op = "convertTo"
     /\ Lower(last.args.targetFormat) \in SUPPORTED_FORMATS
     /\ pre.format_ \in SUPPORTED_FORMATS)
    => /\ last.raised = "none"
       /\ <<Rows(data), Cols(data), Chans(data)>>
             = <<Rows(pre.data), Cols(pre.data), Chans(pre.data)>>

\* C5: after a convertTo to 'angular' or 'skyangular' that returned, every
\* pixel whose center lies outside the inscribed disk equals backgroundColor
\* in every channel, every other pixel holds the value interpolate sampled
\* for it, and on a 4x4 map the pixels the fill overwrites are exactly the
\* four corners.
C5_BackgroundOutsideDisk ==
    (/\ Returned("convertTo")
     /\ Lower(last.args.targetFormat) \in {"angular", "skyangular"})
    => /\ \A i \in DOMAIN data : \A j \in DOMAIN data[i] :
            \A c \in DOMAIN data[i][j] :
               data[i][j][c] = IF OutsideDisk(i, j, Rows(data), Cols(data))
                               THEN backgroundColor[c]
                               ELSE last.sampled[i][j][c]
       /\ (Shape2(data) = <<4, 4>>
             => {p \in (0..3) \X (0..3) : ~last.valid[p[1]][p[2]]}
                   = {0, 3} \X {0, 3})

\* a 4x4 map converted to angular after a color was stored: a corner was
\* overwritten with the color, an inner pixel keeps a sample that differs
C5_Witness ==
    /\ Returned("convertTo")
    /\ last.args.targetFormat = "angular"
    /\ Shape2(data) = <<4, 4>>
    /\ backgroundColor[0] = 7
    /\ data[0][0][0] = 7
    /\ last.sampled[0][0][0] # 7
    /\ data[1][1][0] = last.sampled[1][1][0]
    /\ data[1][1][0] \notin {7, NaN}

\* C9: after a setBackgroundColor, convertTo or interpolate call that
\* returned, backgroundColor has as many elements as data has channels.
C9_ColorLength ==
    (Returned("setBackgroundColor") \/ Returned("convertTo")
        \/ Returned("interpolate"))
    => Size(backgroundColor) = Chans(data)

\* C10: an interpolate call at the map's own pixel centers with an all-true
\* mask, when it returns, has left data[i][j][c] unchanged for every row i,
\* column j and channel c.
C10_IdentityResampling ==
    Returned("interpolate") => data = pre.data

---------------------------------------------------------------------------
(* Properties of the transforms and of the coordinate grids (SpecFn) *)

\* (u - 0.5)^2 + (v - 0.5)^2 <= 0.25
OnDisk(u, v) ==
    (2 * u - Scale) * (2 * u - Scale) + (2 * v - Scale) * (2 * v - Scale)
       <= Scale * Scale

\* C6: the validity mask of image2world is true everywhere on the unit
\* square for 'latlong', and for 'angular' and 'skyangular' true exactly on
\* the closed disk (u - 0.5)^2 + (v - 0.5)^2 <= 0.25; on the pixel centers
\* of an R x C map, pixel (i, j) is valid iff
\* C^2 (2i+1-R)^2 + R^2 (2j+1-C)^2 <= R^2 C^2 for the two disk formats.
C6_ValidityMask ==
    /\ probe.stage = "world"
          => probe.w.valid
                = (probe.fmt = "latlong" \/ OnDisk(probe.u, probe.v))
    /\ probe.stage = "worldgrid"
          => /\ Shape2(probe.d.valid) = <<probe.nrows, probe.ncols>>
             /\ \A i \in 0..probe.nrows - 1 : \A j \in 0..probe.ncols - 1 :
                   probe.d.valid[i][j]
                      = (probe.fmt = "latlong"
                           \/ ~OutsideDisk(i, j, probe.nrows, probe.ncols))

\* the world coordinates of a 4x4 angular map: invalid corner, valid center
C6_Witness ==
    /\ probe.stage = "worldgrid"
    /\ probe.fmt = "angular"
    /\ probe.nrows = 4 /\ probe.ncols = 4
    /\ ~probe.d.valid[0][0]
    /\ probe.d.valid[1][2]

\* C7: imageCoordinates on a map of R rows and C columns returns U and V of
\* shape (R, C) with U[i][j] = (2j+1)/(2C) and V[i][j] = (2i+1)/(2R), every
\* value strictly between 0 and 1.
C7_PixelCenters ==
    probe.stage = "grid"
    => /\ Shape2(probe.g.U) = <<probe.nrows, probe.ncols>>
       /\ Shape2(probe.g.V) = <<probe.nrows, probe.ncols>>
       /\ \A i \in 0..probe.nrows - 1 : \A j \in 0..probe.ncols - 1 :
             /\ 2 * probe.ncols * probe.g.U[i][j] = (2 * j + 1) * Scale
             /\ 2 * probe.nrows * probe.g.V[i][j] = (2 * i + 1) * Scale
             /\ 0 < probe.g.U[i][j] /\ probe.g.U[i][j] < Scale
             /\ 0 < probe.g.V[i][j] /\ probe.g.V[i][j] < Scale

\* the grid of a map with more columns than rows
C7_Witness ==
    /\ probe.stage = "grid"
    /\ probe.nrows = 2 /\ probe.ncols = 3
    /\ probe.g.U[1][2] > probe.g.U[1][0]
    /\ probe.g.V[1][2] > probe.g.V[0][2]

\* world2image gave back the image point image2world was applied to
RoundTrips ==
    /\ Abs(probe.uv.u - probe.u) <= Tol
    /\ Abs(probe.uv.v - probe.v) <= Tol

Interior(fmt, u, v) ==
    CASE fmt = "latlong" -> 0 < u /\ u < Scale /\ 0 < v /\ v < Scale
      [] fmt = "angular" -> OnDisk(u, v)
                            /\ (2 * u - Scale) * (2 * u - Scale)
                               + (2 * v - Scale) * (2 * v - Scale)
                               # Scale * Scale
      [] fmt = "skyangular" -> OnDisk(u, v)

=============================================================================
